---- MODULE Spec2Model ----
(***************************************************************************)
(* A model of Project3/Project3/main.cpp: the GLFW/Oculus run loop         *)
(* (GlfwApp::run, RiftApp::draw) and the CAVE scene (ColorCubeScene:       *)
(* checkInput and render).                                                 *)
(*                                                                         *)
(* Numbers.  Lengths, scales, stick and trigger values are fixed-point     *)
(* integers in units of 1/10000: 0.2 is 2000, 0.01 is 100, 1.0 is 10000,   *)
(* 0.0325 is 325.  The C++ floats are replaced by these exact values, so   *)
(* float rounding is not part of the model.                                *)
(*                                                                         *)
(* Poses.  A pose is [pos, rot]: pos a triple, rot 0 (identity) or 1 (a    *)
(* half turn about the y axis).  A view matrix is [rot, trans]: its        *)
(* rotation part and its translation column.                               *)
(*                                                                         *)
(* main.  The teardown of main is followed step by step: an exception      *)
(* leaves run() through the destructor of the temporary ExampleApp, is     *)
(* logged by the handler, and ovr_Shutdown follows on every path.          *)
(*                                                                         *)
(* Off-axis projection.  The run loop keeps the off-axis matrix of a       *)
(* surface as a term in the eye position.  The arithmetic of the "WALL     *)
(* MATH" lines is checked on its own (SpecOffAxis) with exact rationals,   *)
(* on rectangles whose edge lengths are rational, in plain units.          *)
(***************************************************************************)
EXTENDS Integers, Sequences, FiniteSets, TLC

VARIABLES
    \* GlfwApp / RiftApp / main
    pc,                 \* position in main / GlfwApp::run / RiftApp::draw
    frame,              \* GlfwApp::frame
    shouldClose,        \* the window's should-close flag
    eye,                \* loop variable of ovr::for_each_eye in RiftApp::draw
    eyePoses,           \* eyePoses[2] of RiftApp::draw (= _sceneLayer.RenderPose)
    texMissing,         \* the loadPPM calls of the scene constructor that returned 0
    session,            \* RiftManagerApp::_session: "none", "live" or "destroyed"
    result,             \* int result of main
    fbStatus,           \* completeness of the scene's framebuffer as GL would report it
    glHandles,          \* GL objects generated by the scene and not deleted
    geometry,           \* number of Quad, Box and Pyramid objects created with new and not deleted
    \* ColorCubeScene fields
    boxScale, boxtransform,
    A_down, B_down, X_down,
    track, debug, broken,
    viewFromController, triggerPressed,
    handPose,           \* handPoses[RIGHT]
    eyePos,             \* eyePos[2]
    posOnly,            \* translation column of posOnly
    quadProjections,    \* quadProjections[3]
    \* GL state
    uShader,            \* uniforms of shaderProg
    uScreen,            \* uniforms of screenShaderProg
    renderedTextures,   \* what each of renderedTextures[6] holds
    eyeBuffer,          \* per eye, the surface draws made into its viewport of the HMD buffer
    \* the off-axis projection taken on its own
    offAxisIn,          \* a surface's corners and an eye position; None if none
    offAxisOut,         \* what the "WALL MATH" lines compute for offAxisIn; None if not run
    \* history (not program state)
    lastIn,             \* sample of the latest checkInput query
    lastOkButtons,      \* buttons reported by the latest successful checkInput query
    stickSum,           \* sum of (right x, right y, -left y) over the successful checkInput queries
    lastTrigger,        \* trigger of the latest successful query of render; None if none
    lastQuery,          \* sample of the latest trigger query of render
    lastEye,            \* eye of the latest render call; None if none
    tracked,            \* per eye: eyePos/posOnly at the end of its latest render call made with track
    frameEvents,        \* renders and submits of the current run-loop iteration
    polls,              \* checkInput calls of the current run-loop iteration
    thrown,             \* message of the exception thrown by FAIL; None if none
    mainEvents          \* shutdownGl, ovr_Destroy, log and ovr_Shutdown calls in the order made

appVars   == <<pc, frame, shouldClose, eye, eyePoses, texMissing>>
inputVars == <<boxScale, boxtransform, A_down, B_down, X_down, track, debug, broken>>
viewVars  == <<viewFromController, triggerPressed, handPose, eyePos, posOnly, quadProjections>>
glVars    == <<uShader, uScreen, renderedTextures, eyeBuffer>>
pollHist  == <<lastIn, lastOkButtons, stickSum>>
frameHist == <<lastTrigger, lastQuery, lastEye, tracked, frameEvents, polls>>
mainVars  == <<session, result, fbStatus, glHandles, geometry, thrown, mainEvents>>
mathVars  == <<offAxisIn, offAxisOut>>
vars == <<appVars, mainVars, mathVars, inputVars, viewVars, glVars, pollHist, frameHist>>

----------------------------------------------------------------------------
\* Program constants (units of 1/10000)

\* float boxScale = 0.2f, and the reset value of checkInput
DefaultScale == 2000
\* temp > 0.01f
MinScale == 100
\* temp < 1.0f
MaxScale == 10000
\* Thumbstick * 0.01f: a stick value v moves by v / 100
StickDivisor == 100
\* HandTrigger > 0.5f
TriggerThreshold == 5000
\* eyePos[eye].x -= 0.0325f / += 0.0325f
HalfIOD == 325
\* ovrEye_Count, the bound of for_each_eye
ovrEye_Count == 2
\* renderedTextures[eye * 3 + i]
SurfaceCount == 3

LEFT == 0
RIGHT == 1
Eyes == 0 .. (ovrEye_Count - 1)
Surfaces == 0 .. (SurfaceCount - 1)     \* 0 left wall, 1 right wall, 2 floor
Buttons == {"A", "B", "X", "LThumb"}

----------------------------------------------------------------------------
\* Bounds of the model

\* run-loop iterations explored
MaxFrames == 2

\* "no value yet" for the history variables, and an empty render target
None == <<>>
Zero3 == <<0, 0, 0>>

\* the state a failed ovr_GetInputState leaves behind is never read
FailedSample == [ok |-> FALSE, lx |-> 0, ly |-> 0, rx |-> 0, ry |-> 0, buttons |-> {}]

\* samples for sequences of polls: scale axis and every button combination
PollInputs ==
    {FailedSample} \cup
    [ok : {TRUE}, lx : {-10000, 0, 5000, 10000}, ly : {0}, rx : {0}, ry : {0},
     buttons : SUBSET Buttons]

----------------------------------------------------------------------------
\* ColorCubeScene::checkInput

\* the scale axis with the lower limit forgotten
ScaleAxisNoLower(scale, lx) ==
    LET temp == scale + (lx \div StickDivisor)
    IN  IF lx # 0 /\ temp < MaxScale THEN temp ELSE scale

\* if (Thumbstick[Left].x != 0) { temp = boxScale + x * 0.01f;
\*   if (temp > 0.01f && temp < 1.0f) boxScale = temp; }
ScaleAxis(scale, lx) ==
    LET temp == scale + (lx \div StickDivisor)
    IN  IF lx # 0 /\ temp > MinScale /\ temp < MaxScale THEN temp ELSE scale

\* if (Buttons & ovrButton_LThumb) boxScale = 0.2f;
ScaleReset(scale, buttons) ==
    IF "LThumb" \in buttons THEN DefaultScale ELSE scale

\* the reset applied before the scale axis instead of after it
ScaleAfterResetFirst(scale, in) == ScaleAxis(ScaleReset(scale, in.buttons), in.lx)

\* the scale axis, then the reset
ScaleAfter(scale, in) == ScaleReset(ScaleAxis(scale, in.lx), in.buttons)

\* the sticks taken as a position instead of a movement
TranslateAbsolute(bt, in) ==
    IF in.rx # 0 \/ in.ry # 0 \/ in.ly # 0
    THEN <<in.rx \div StickDivisor, in.ry \div StickDivisor,
           -10000 - (in.ly \div StickDivisor)>>
    ELSE bt

\* boxtransform = glm::translate(boxtransform, vec3(rx * 0.01f, ry * 0.01f, ly * -0.01f))
TranslateAfter(bt, in) ==
    IF in.rx # 0 \/ in.ry # 0 \/ in.ly # 0
    THEN <<bt[1] + (in.rx \div StickDivisor),
           bt[2] + (in.ry \div StickDivisor),
           bt[3] - (in.ly \div StickDivisor)>>
    ELSE bt

\* a latch that is never released again: the flag would fire once per run
LatchAfterStuck(down, pressed) == IF pressed /\ ~down THEN TRUE ELSE down

\* if (pressed && !down) { down = true; ... }  if (!pressed) down = false;
LatchAfter(down, pressed) ==
    IF pressed /\ ~down THEN TRUE ELSE IF ~pressed THEN FALSE ELSE down

\* if (pressed && !down) { ...; flag = !flag; }
ToggleAfter(flag, down, pressed) ==
    IF pressed /\ ~down THEN ~flag ELSE flag

\* the whole of checkInput for one sample
CheckInput(in) ==
    /\ lastIn' = in
    /\ IF in.ok
       THEN /\ boxScale' = ScaleAfter(boxScale, in)
            /\ boxtransform' = TranslateAfter(boxtransform, in)
            /\ B_down' = LatchAfter(B_down, "B" \in in.buttons)
            /\ track' = ToggleAfter(track, B_down, "B" \in in.buttons)
            /\ A_down' = LatchAfter(A_down, "A" \in in.buttons)
            /\ debug' = ToggleAfter(debug, A_down, "A" \in in.buttons)
            /\ X_down' = LatchAfter(X_down, "X" \in in.buttons)
            /\ broken' = ToggleAfter(broken, X_down, "X" \in in.buttons)
            /\ lastOkButtons' = in.buttons
            /\ stickSum' = <<stickSum[1] + in.rx, stickSum[2] + in.ry, stickSum[3] - in.ly>>
       ELSE UNCHANGED <<inputVars, lastOkButtons, stickSum>>

----------------------------------------------------------------------------
\* Inputs of the run loop

\* samples of one render call: the checkInput query (in), the right hand pose
\* of ovr_GetTrackingState (hand) and the trigger query (q)
NoButtons == [ok |-> TRUE, lx |-> 0, ly |-> 0, rx |-> 0, ry |-> 0, buttons |-> {}]
HandA == [pos |-> <<0, 12000, -3000>>, rot |-> 0]
HandB == [pos |-> <<1000, 9000, -2000>>, rot |-> 1]
RenderSamples ==
    {\* both queries fail
     [in |-> FailedSample, hand |-> HandA, q |-> [ok |-> FALSE, trigger |-> 0]],
     \* B pressed, trigger released
     [in |-> [NoButtons EXCEPT !.buttons = {"B"}], hand |-> HandA,
      q |-> [ok |-> TRUE, trigger |-> 0]],
     \* X pressed, trigger exactly at the threshold
     [in |-> [NoButtons EXCEPT !.buttons = {"X"}], hand |-> HandB,
      q |-> [ok |-> TRUE, trigger |-> 5000]],
     \* A pressed, trigger pulled
     [in |-> [NoButtons EXCEPT !.buttons = {"A"}], hand |-> HandB,
      q |-> [ok |-> TRUE, trigger |-> 9000]],
     \* sticks moved, trigger query fails
     [in |-> [NoButtons EXCEPT !.lx = 10000, !.ly = 10000, !.rx = 10000, !.ry = -10000],
      hand |-> HandA, q |-> [ok |-> FALSE, trigger |-> 0]]}

\* samples of ovr_GetEyePoses: the two eye poses of one frame
EyePoseSamples ==
    {<<[pos |-> <<-325, 0, 0>>, rot |-> 0], [pos |-> <<325, 0, 0>>, rot |-> 0]>>,
     <<[pos |-> <<2325, 500, -1000>>, rot |-> 1], [pos |-> <<1675, 500, -1000>>, rot |-> 1]>>}

\* which PPM files are absent at startup
AssetsPresent == {{}}
MissingSamples ==
    {{}, {"vr_test_pattern.ppm"}, {"left-ppm/nx.ppm", "bsk/SunSetUp2048.ppm"}}

----------------------------------------------------------------------------
\* Matrices

\* glm::inverse(ovr::toGlm(pose)): toGlm(pose) is translation * orientation, so
\* the inverse has the inverse rotation and the translation column -R^-1 p
ViewOf(pose) ==
    [rot |-> pose.rot,
     trans |-> IF pose.rot = 0
               THEN <<-pose.pos[1], -pose.pos[2], -pose.pos[3]>>
               ELSE <<pose.pos[1], -pose.pos[2], pose.pos[3]>>]

\* _eyeProjections[eye], fixed per session
EyeProjection(e) == [kind |-> "eye", eye |-> e]

\* leftTransform, rightTransform, floorTransform: rotate, scale 1.2, translate (0,0,-1)
SurfaceTransform(s) ==
    [rotation |-> CASE s = 0 -> <<<<45, "y">>>>
                    [] s = 1 -> <<<<-45, "y">>>>
                    [] OTHER -> <<<<-90, "x">>, <<45, "z">>>>,
     scale |-> 12000,
     translation |-> <<0, 0, -10000>>]

\* frustum(l, r, b, t, 0.001, 1000) * M * T for surface i: a function of the
\* surface's corners (fixed) and of the eye position
OffAxis(i, eyePosition) == [kind |-> "offAxis", surface |-> i, eyePos |-> eyePosition]

----------------------------------------------------------------------------
\* ColorCubeScene::render

\* the trigger compared with >= : exactly 0.5 would count as pressed
TriggerOverInclusive(trigger) == trigger >= TriggerThreshold

\* triggerPressed[RIGHT] = inputstate.HandTrigger[ovrHand_Right] > 0.5f
TriggerOver(trigger) == trigger > TriggerThreshold

\* a failed query taken as a released trigger
TriggerAfterReleasedOnFailure(pressed, q) == q.ok /\ TriggerOver(q.trigger)

\* if (OVR_SUCCESS(ovr_GetInputState(...))) triggerPressed[RIGHT] = ...;
TriggerAfter(pressed, q) == IF q.ok THEN TriggerOver(q.trigger) ELSE pressed

\* if (!viewFromController && track) posOnly[3] = modelview[3];
PosOnlyAfter(po, vfc, trk, modelview) ==
    IF ~vfc /\ trk THEN modelview.trans ELSE po

\* the modelview uniform bound for the off-axis passes
SceneView(po, vfc, hand) ==
    IF vfc THEN ViewOf(hand) ELSE [rot |-> 0, trans |-> po]

\* eyePos[eye] of render, lines "LEFT WALL MATH"
EyePosAfter(ep, e, vfc, trk, hand, renderPose) ==
    IF vfc
    THEN IF trk
         THEN IF e = LEFT
              THEN <<hand.pos[1] - HalfIOD, hand.pos[2], hand.pos[3]>>
              ELSE <<hand.pos[1] + HalfIOD, hand.pos[2], hand.pos[3]>>
         ELSE ep
    ELSE IF trk THEN renderPose.pos ELSE ep

\* renderedTextures[eye * 3 + i], the target of off-axis pass i
PassTarget(e, i) == e * SurfaceCount + i

\* the compositor sampling the left eye's targets for both eyes
SampledTargetNoEye(e, s) == s

\* renderedTextures[eye * 3], [eye * 3 + 1], [eye * 3 + 2] of the compositor
SampledTarget(e, s) == e * SurfaceCount + s

\* the view of the compositor taken from the scene pass instead of the HMD
CompositorViewFromScene(modelview, sceneView) == sceneView

\* glUniformMatrix4fv(uModelview, ..., modelview) of the compositor
CompositorView(modelview, sceneView) == modelview

\* the fault mode left over from the previous compositor pass
BrokenAtStartKept(prev) == prev

\* glUniform1i(uBroken, 0) at the start of the compositor pass
BrokenAtStart(prev) == 0

\* if (eye && broken) glUniform1i(uBroken, 2), just before the floor is drawn
BrokenAtFloor(cur, e, brk) == IF e # 0 /\ brk THEN 2 ELSE cur

\* the value of the broken uniform when surface s is drawn
BrokenMode(prev, e, s, brk) ==
    IF s = SurfaceCount - 1
    THEN BrokenAtFloor(BrokenAtStart(prev), e, brk)
    ELSE BrokenAtStart(prev)

\* what one off-axis pass leaves in its target
PassResult(e, i, projections, view, scale, bt) ==
    <<[surface |-> i, eye |-> e, frame |-> frame, projection |-> projections[i],
       view |-> view, boxScale |-> scale, boxtransform |-> bt]>>

RenderEvent(e) == IF e = LEFT THEN "renderLeft" ELSE "renderRight"

\* lefteye_wireFrames[0], [1], [2] = new Pyramid(...)
WireframeCount == 3

\* if (debug) { ... lefteye_wireFrames[k] = new Pyramid(...); ...->draw(...); }: the
\* pointers are overwritten by the next call and nothing is deleted
WireframesAfter(objects, dbg) == IF dbg THEN objects + WireframeCount ELSE objects

Render(e, projection, modelview, renderPose, in, hand, q) ==
    /\ CheckInput(in)
    /\ polls' = polls + 1
    /\ handPose' = hand
    /\ triggerPressed' = TriggerAfter(triggerPressed, q)
    /\ viewFromController' = triggerPressed'
    /\ lastTrigger' = IF q.ok THEN <<q.trigger>> ELSE lastTrigger
    /\ lastQuery' = q
    /\ posOnly' = PosOnlyAfter(posOnly, viewFromController', track', modelview)
    /\ eyePos' = [eyePos EXCEPT ![e] =
                    EyePosAfter(eyePos[e], e, viewFromController', track', hand, renderPose)]
    /\ quadProjections' = [i \in Surfaces |-> OffAxis(i, eyePos'[e])]
    /\ LET sceneView == SceneView(posOnly', viewFromController', hand)
           written == [k \in 0 .. (ovrEye_Count * SurfaceCount - 1) |->
                         IF \E i \in Surfaces : PassTarget(e, i) = k
                         THEN LET i == CHOOSE j \in Surfaces : PassTarget(e, j) = k
                              IN  PassResult(e, i, quadProjections', sceneView,
                                             boxScale', boxtransform')
                         ELSE renderedTextures[k]]
       IN  /\ renderedTextures' = written
           /\ uShader' = [projection |-> quadProjections'[SurfaceCount - 1],
                          modelview |-> sceneView,
                          transform |-> "skybox"]
           /\ uScreen' = [projection |-> projection,
                          modelview |-> CompositorView(modelview, sceneView),
                          transform |-> SurfaceTransform(SurfaceCount - 1),
                          broken |-> BrokenMode(uScreen.broken, e, SurfaceCount - 1, broken')]
           /\ eyeBuffer' = [eyeBuffer EXCEPT ![e] =
                  [n \in 1 .. SurfaceCount |->
                     LET s == n - 1 IN
                     [surface |-> s,
                      frame |-> frame,
                      projection |-> projection,
                      modelview |-> CompositorView(modelview, sceneView),
                      transform |-> SurfaceTransform(s),
                      tex |-> SampledTarget(e, s),
                      content |-> written[SampledTarget(e, s)],
                      mode |-> BrokenMode(uScreen.broken, e, s, broken')]]]
    /\ geometry' = WireframesAfter(geometry, debug')
    /\ lastEye' = <<e>>
    /\ tracked' = IF track'
                  THEN [tracked EXCEPT ![e] = <<[eyePos |-> eyePos'[e], posOnly |-> posOnly']>>]
                  ELSE tracked
    /\ frameEvents' = Append(frameEvents, RenderEvent(e))

----------------------------------------------------------------------------
\* ColorCubeScene::ColorCubeScene, texture loading

\* the files each texture is loaded from
TextureFiles ==
    [box |-> {"vr_test_pattern.ppm"},
     skyboxLeft |-> {"left-ppm/px.ppm", "left-ppm/nx.ppm", "left-ppm/py.ppm",
                     "left-ppm/ny.ppm", "left-ppm/pz.ppm", "left-ppm/nz.ppm"},
     skyboxRight |-> {"right-ppm/px.ppm", "right-ppm/nx.ppm", "right-ppm/py.ppm",
                      "right-ppm/ny.ppm", "right-ppm/pz.ppm", "right-ppm/nz.ppm"},
     biggerskybox |-> {"bsk/SunSetLeft2048.ppm", "bsk/SunSetRight2048.ppm",
                       "bsk/SunSetUp2048.ppm", "bsk/SunSetDown2048.ppm",
                       "bsk/SunSetFront2048.ppm", "bsk/SunSetBack2048.ppm"},
     leftTextures |-> {"left-ppm/nx.ppm", "right-ppm/nx.ppm"},
     rightTextures |-> {"left-ppm/pz.ppm", "right-ppm/pz.ppm"},
     floorTextures |-> {"left-ppm/ny.ppm", "right-ppm/ny.ppm"}]

\* loadPPM: 0 with width = height = 0 when fopen fails, the pixel data otherwise
loadPPM(file, missing) ==
    IF file \in missing
    THEN [data |-> 0, width |-> 0, height |-> 0]
    ELSE [data |-> 1, width |-> 1024, height |-> 1024]

\* Box::loadBoxTexture / Quad::loadQuadTexture: the data is uploaded as given;
\* the result is TRUE when the upload rejected the images
LoadTextureRejects(images) == FALSE

\* the constructor passes every loadPPM result on without looking at it: it fails
\* only if an upload does
SceneConstructorFails(missing) ==
    \E t \in DOMAIN TextureFiles :
        LoadTextureRejects({loadPPM(f, missing) : f \in TextureFiles[t]})

\* the textures that were built from a null image
TexturesMissing(missing) ==
    {t \in DOMAIN TextureFiles :
        \E f \in TextureFiles[t] : loadPPM(f, missing).data = 0}

----------------------------------------------------------------------------
\* main, GlfwApp::run, RiftApp::draw

InitScene ==
    /\ boxScale = DefaultScale
    /\ boxtransform = <<0, 0, -10000>>
    /\ A_down = FALSE /\ B_down = FALSE /\ X_down = FALSE
    /\ track = TRUE /\ debug = FALSE /\ broken = FALSE
    /\ viewFromController = FALSE /\ triggerPressed = FALSE
    /\ handPose = [pos |-> Zero3, rot |-> 0]
    \* glm::vec3 eyePos[2] is default-constructed: zero, as glm::mat4 boxtransform is
    \* taken to be the identity by the constructor
    /\ eyePos = [e \in Eyes |-> Zero3]
    /\ posOnly = Zero3
    /\ quadProjections = [i \in Surfaces |-> OffAxis(i, Zero3)]
    /\ uShader = [projection |-> None, modelview |-> None, transform |-> ""]
    /\ uScreen = [projection |-> None, modelview |-> None, transform |-> None, broken |-> 0]
    /\ renderedTextures = [k \in 0 .. (ovrEye_Count * SurfaceCount - 1) |-> None]
    /\ eyeBuffer = [e \in Eyes |-> None]
    /\ lastIn = FailedSample
    /\ lastOkButtons = {}
    /\ stickSum = Zero3
    /\ lastTrigger = None
    /\ lastQuery = [ok |-> FALSE, trigger |-> 0]
    /\ lastEye = None
    /\ tracked = [e \in Eyes |-> None]
    /\ frameEvents = <<>>
    /\ polls = 0

\* leftwall, rightwall, floor = new Quad(); x, y, z, box, skybox, biggerSkyBox = new Box()
SceneGeometry == 9

\* the GL objects the constructor generates: glGenFramebuffers(1, &fbo),
\* glGenTextures(1, &renderedTexture), glGenRenderbuffers(1, &depthrenderbuffer)
\* and glGenTextures(1, &renderedTextures[i]) for i < 6
SceneHandles ==
    {<<"fbo", 0>>, <<"renderedTexture", 0>>, <<"depthrenderbuffer", 0>>} \cup
    {<<"renderedTextures", k>> : k \in 0 .. (ovrEye_Count * SurfaceCount - 1)}

\* what glCheckFramebufferStatus would report for fbo once it has its attachments
FramebufferComplete == {"GL_FRAMEBUFFER_COMPLETE"}
FramebufferStatuses == {"GL_FRAMEBUFFER_COMPLETE", "GL_FRAMEBUFFER_UNSUPPORTED"}

\* checkFramebufferStatus: true for GL_FRAMEBUFFER_COMPLETE, a message and false otherwise
checkFramebufferStatus(status) == status = "GL_FRAMEBUFFER_COMPLETE"

\* the framebuffer setup of the constructor ends with glBindFramebuffer(GL_FRAMEBUFFER, 0):
\* checkFramebufferStatus is not called, so no status makes the constructor throw
FramebufferSetupFails(status) == FALSE

\* ColorCubeScene declares no destructor: destroying the scene deletes no GL object
SceneDestructor(handles) == handles

Init ==
    /\ pc = "main"
    /\ frame = 0
    /\ shouldClose = FALSE
    /\ eye = 0
    /\ eyePoses = None
    /\ texMissing = {}
    /\ session = "none"
    /\ result = -1
    /\ fbStatus = None
    /\ glHandles = {}
    /\ geometry = 0
    /\ thrown = None
    /\ mainEvents = <<>>
    /\ offAxisIn = None
    /\ offAxisOut = None
    /\ InitScene

sceneVars == <<inputVars, viewVars, glVars, pollHist, frameHist>>

\* FAIL(X): throw std::runtime_error(X)
FAIL(X) == thrown' = <<X>>

\* ovr_Initialize; FAIL throws to the handler of main, no object exists yet
OvrInitialize ==
    /\ pc = "main"
    /\ \E ok \in BOOLEAN :
          IF ok
          THEN pc' = "construct" /\ UNCHANGED thrown
          ELSE pc' = "catch" /\ FAIL("Failed to initialize the Oculus SDK")
    /\ UNCHANGED <<frame, shouldClose, eye, eyePoses, texMissing, sceneVars,
                   session, result, fbStatus, glHandles, geometry, mainEvents>>
    /\ UNCHANGED mathVars

\* ExampleApp(): GlfwApp() calls glfwInit, RiftManagerApp() calls ovr_Create.  A
\* constructor that throws leaves no RiftManagerApp to destroy.
Construct ==
    /\ pc = "construct"
    /\ \E outcome \in {"ok", "glfwInit", "ovr_Create"} :
          CASE outcome = "ok" ->
                  pc' = "run" /\ session' = "live" /\ UNCHANGED thrown
            [] outcome = "glfwInit" ->
                  pc' = "catch" /\ FAIL("Failed to initialize GLFW") /\ UNCHANGED session
            [] OTHER ->
                  pc' = "catch" /\ FAIL("Unable to create HMD session") /\ UNCHANGED session
    /\ UNCHANGED <<frame, shouldClose, eye, eyePoses, texMissing, sceneVars,
                   result, fbStatus, glHandles, geometry, mainEvents>>
    /\ UNCHANGED mathVars

\* run(): preCreate, createRenderingTarget, postCreate
CreateWindow ==
    /\ pc = "run"
    /\ \E outcome \in {"ok", "glfwCreateWindow", "glewInit"} :
          CASE outcome = "ok" ->
                  pc' = "initGl" /\ UNCHANGED thrown
            [] outcome = "glfwCreateWindow" ->
                  pc' = "unwind" /\ FAIL("Unable to create rendering window")
            [] OTHER ->
                  pc' = "unwind" /\ FAIL("Failed to initialize GLEW")
    /\ UNCHANGED <<frame, shouldClose, eye, eyePoses, texMissing, sceneVars,
                   session, result, fbStatus, glHandles, geometry, mainEvents>>
    /\ UNCHANGED mathVars

\* ExampleApp::initGl: RiftApp::initGl, then new ColorCubeScene()
InitGl(assetSamples, statusSamples) ==
    /\ pc = "initGl"
    /\ \E ok \in BOOLEAN, missing \in assetSamples, status \in statusSamples :
          IF ~ok
          THEN /\ pc' = "unwind"
               /\ FAIL("Failed to create swap textures")
               /\ UNCHANGED <<texMissing, fbStatus, glHandles, geometry>>
          ELSE /\ texMissing' = TexturesMissing(missing)
               /\ fbStatus' = <<status>>
               /\ glHandles' = glHandles \cup SceneHandles
               /\ geometry' = geometry + SceneGeometry
               /\ IF SceneConstructorFails(missing) \/ FramebufferSetupFails(status)
                  THEN pc' = "unwind" /\ FAIL("ColorCubeScene")
                  ELSE pc' = "loop" /\ UNCHANGED thrown
    /\ UNCHANGED <<frame, shouldClose, eye, eyePoses, sceneVars, session, result, mainEvents>>
    /\ UNCHANGED mathVars

\* a loop test that never sees the exit request
ShouldCloseIgnored(close) == FALSE

\* glfwWindowShouldClose(window): the flag as it is, which the call leaves set
glfwWindowShouldClose(close) == close

\* while (!glfwWindowShouldClose(window)) { ++frame; ...
LoopTest(maxFrames) ==
    /\ pc = "loop"
    /\ IF glfwWindowShouldClose(shouldClose)
       THEN /\ pc' = "shutdownGl"
            /\ UNCHANGED <<frame, frameEvents, polls>>
       ELSE /\ frame < maxFrames
            /\ frame' = frame + 1
            /\ frameEvents' = <<>>
            /\ polls' = 0
            /\ pc' = "pollEvents"
    /\ UNCHANGED <<shouldClose, eye, eyePoses, texMissing, inputVars, viewVars, glVars,
                   pollHist, lastTrigger, lastQuery, lastEye, tracked>>
    /\ UNCHANGED mainVars
    /\ UNCHANGED mathVars

\* glfwPollEvents: the key callback sets should-close on ESC
PollEvents ==
    /\ pc = "pollEvents"
    /\ \E key \in {"none", "ESCAPE", "R"} :
          shouldClose' = (shouldClose \/ key = "ESCAPE")
    /\ pc' = "update"
    /\ UNCHANGED <<frame, eye, eyePoses, texMissing, sceneVars>>
    /\ UNCHANGED mainVars
    /\ UNCHANGED mathVars

\* a GLFW error reported by glfwPollEvents or by glfwSwapBuffers: ErrorCallback
\* throws, main catches
GlfwError ==
    /\ pc \in {"pollEvents", "finishFrame"}
    /\ pc' = "unwind"
    /\ FAIL("GLFW error")
    /\ UNCHANGED <<frame, shouldClose, eye, eyePoses, texMissing, sceneVars,
                   session, result, fbStatus, glHandles, geometry, mainEvents>>
    /\ UNCHANGED mathVars

\* RiftApp::update: its body is commented out
Update ==
    /\ pc = "update"
    /\ pc' = "draw"
    /\ UNCHANGED <<frame, shouldClose, eye, eyePoses, texMissing, sceneVars>>
    /\ UNCHANGED mainVars
    /\ UNCHANGED mathVars

\* RiftApp::draw up to for_each_eye: ovr_GetEyePoses, bind and clear the eye buffer
DrawBegin ==
    /\ pc = "draw"
    /\ eyePoses' \in EyePoseSamples
    /\ eye' = 0
    /\ eyeBuffer' = [e \in Eyes |-> None]
    /\ pc' = "renderScene"
    /\ UNCHANGED <<frame, shouldClose, texMissing, inputVars, viewVars,
                   uShader, uScreen, renderedTextures, pollHist, frameHist>>
    /\ UNCHANGED mainVars
    /\ UNCHANGED mathVars

\* the off-by-one loop that leaves after the left eye
ForEachEyeDoneEarly(e) == e >= ovrEye_Count - 1

\* eye < ovrEye_Count fails
ForEachEyeDone(e) == e >= ovrEye_Count

\* one iteration of for_each_eye: renderScene -> cubeScene->render
RenderScene ==
    /\ pc = "renderScene"
    /\ \E s \in RenderSamples :
          Render(eye, EyeProjection(eye), ViewOf(eyePoses[eye + 1]), eyePoses[eye + 1],
                 s.in, s.hand, s.q)
    /\ eye' = eye + 1
    /\ pc' = IF ForEachEyeDone(eye + 1) THEN "submit" ELSE "renderScene"
    /\ UNCHANGED <<frame, shouldClose, eyePoses, texMissing>>
    /\ UNCHANGED <<session, result, fbStatus, glHandles, thrown, mainEvents>>
    /\ UNCHANGED mathVars

\* ovr_CommitTextureSwapChain, ovr_SubmitFrame, mirror blit
SubmitFrame ==
    /\ pc = "submit"
    /\ frameEvents' = Append(frameEvents, "submit")
    /\ pc' = "finishFrame"
    /\ UNCHANGED <<frame, shouldClose, eye, eyePoses, texMissing, inputVars, viewVars,
                   glVars, pollHist, lastTrigger, lastQuery, lastEye, tracked, polls>>
    /\ UNCHANGED mainVars
    /\ UNCHANGED mathVars

\* glfwSwapBuffers
FinishFrame ==
    /\ pc = "finishFrame"
    /\ pc' = "loop"
    /\ UNCHANGED <<frame, shouldClose, eye, eyePoses, texMissing, sceneVars>>
    /\ UNCHANGED mainVars
    /\ UNCHANGED mathVars

\* a destructor that leaves the session open
ovr_DestroySkipped(s) == s

\* ovr_Destroy(_session)
ovr_Destroy(s) == "destroyed"

\* ~ExampleApp: the cubeScene pointer lets go of the scene, ~RiftManagerApp calls
\* ovr_Destroy, ~GlfwApp destroys the window and terminates GLFW
DestroyApp ==
    /\ glHandles' = SceneDestructor(glHandles)
    /\ geometry' = SceneDestructor(geometry)
    /\ session' = ovr_Destroy(session)
    /\ mainEvents' = Append(mainEvents, "ovr_Destroy")

\* shutdownGl (cubeScene.reset()), return 0, result = 0
ShutdownGl ==
    /\ pc = "shutdownGl"
    /\ glHandles' = SceneDestructor(glHandles)
    /\ geometry' = SceneDestructor(geometry)
    /\ mainEvents' = Append(mainEvents, "shutdownGl")
    /\ result' = 0
    /\ pc' = "destruct"
    /\ UNCHANGED <<frame, shouldClose, eye, eyePoses, texMissing, sceneVars,
                   session, fbStatus, thrown>>
    /\ UNCHANGED mathVars

\* the temporary ExampleApp() is destroyed at the end of the statement
Destruct ==
    /\ pc = "destruct"
    /\ DestroyApp
    /\ pc' = "ovrShutdown"
    /\ UNCHANGED <<frame, shouldClose, eye, eyePoses, texMissing, sceneVars,
                   result, fbStatus, thrown>>
    /\ UNCHANGED mathVars

\* an exception leaving run(): the temporary ExampleApp() is destroyed on the way
\* to the handler
Unwind ==
    /\ pc = "unwind"
    /\ DestroyApp
    /\ pc' = "catch"
    /\ UNCHANGED <<frame, shouldClose, eye, eyePoses, texMissing, sceneVars,
                   result, fbStatus, thrown>>
    /\ UNCHANGED mathVars

\* catch (std::exception & error): OutputDebugStringA, std::cerr << error.what()
Catch ==
    /\ pc = "catch"
    /\ mainEvents' = Append(mainEvents, "log")
    /\ pc' = "ovrShutdown"
    /\ UNCHANGED <<frame, shouldClose, eye, eyePoses, texMissing, sceneVars,
                   session, result, fbStatus, glHandles, geometry, thrown>>
    /\ UNCHANGED mathVars

\* ovr_Shutdown(); return result;
OvrShutdown ==
    /\ pc = "ovrShutdown"
    /\ mainEvents' = Append(mainEvents, "ovr_Shutdown")
    /\ pc' = "exit"
    /\ UNCHANGED <<frame, shouldClose, eye, eyePoses, texMissing, sceneVars,
                   session, result, fbStatus, glHandles, geometry, thrown>>
    /\ UNCHANGED mathVars

Next ==
    \/ OvrInitialize
    \/ Construct
    \/ CreateWindow
    \/ InitGl(AssetsPresent, FramebufferComplete)
    \/ LoopTest(MaxFrames)
    \/ PollEvents
    \/ GlfwError
    \/ Update
    \/ DrawBegin
    \/ RenderScene
    \/ SubmitFrame
    \/ FinishFrame
    \/ ShutdownGl
    \/ Destruct
    \/ Unwind
    \/ Catch
    \/ OvrShutdown

Spec == Init /\ [][Next]_vars

----------------------------------------------------------------------------
\* Sequences of checkInput calls on a constructed scene

InitPoll ==
    /\ pc = "poll"
    /\ frame = 0
    /\ shouldClose = FALSE
    /\ eye = 0
    /\ eyePoses = None
    /\ texMissing = {}
    /\ session = "live"
    /\ result = -1
    /\ fbStatus = <<"GL_FRAMEBUFFER_COMPLETE">>
    /\ glHandles = SceneHandles
    /\ geometry = SceneGeometry
    /\ thrown = None
    /\ mainEvents = <<>>
    /\ offAxisIn = None
    /\ offAxisOut = None
    /\ InitScene

Poll ==
    /\ pc = "poll"
    /\ \E in \in PollInputs : CheckInput(in)
    /\ UNCHANGED <<appVars, mainVars, viewVars, glVars, frameHist>>
    /\ UNCHANGED mathVars

SpecPoll == InitPoll /\ [][Poll]_vars

\* checkInput calls that move the box: the three translation axes, the scale
\* axis and the scale reset
MaxPolls == 3
MoveInputs ==
    {FailedSample} \cup
    [ok : {TRUE}, lx : {0, 10000}, ly : {0, 10000}, rx : {-10000, 0, 5000},
     ry : {0, 10000}, buttons : {{}, {"LThumb"}}]

PollMove ==
    /\ pc = "poll"
    /\ polls < MaxPolls
    /\ polls' = polls + 1
    /\ \E in \in MoveInputs : CheckInput(in)
    /\ UNCHANGED <<appVars, mainVars, mathVars, viewVars, glVars,
                   lastTrigger, lastQuery, lastEye, tracked, frameEvents>>

SpecMove == InitPoll /\ [][PollMove]_vars

----------------------------------------------------------------------------
\* Startup with texture files that may be absent, followed by the run loop

\* run-loop iterations explored after startup
StartupFrames == 1

NextStartup ==
    \/ OvrInitialize
    \/ Construct
    \/ CreateWindow
    \/ InitGl(MissingSamples, FramebufferStatuses)
    \/ LoopTest(StartupFrames)
    \/ PollEvents
    \/ GlfwError
    \/ Update
    \/ DrawBegin
    \/ RenderScene
    \/ SubmitFrame
    \/ FinishFrame
    \/ ShutdownGl
    \/ Destruct
    \/ Unwind
    \/ Catch
    \/ OvrShutdown

SpecStartup == Init /\ [][NextStartup]_vars

----------------------------------------------------------------------------
\* The run of main as a single thread that always takes its next step

\* run-loop iterations explored
ExitFrames == 2

NextExit ==
    \/ OvrInitialize
    \/ Construct
    \/ CreateWindow
    \/ InitGl(AssetsPresent, FramebufferComplete)
    \/ LoopTest(ExitFrames)
    \/ PollEvents
    \/ GlfwError
    \/ Update
    \/ DrawBegin
    \/ RenderScene
    \/ SubmitFrame
    \/ FinishFrame
    \/ ShutdownGl
    \/ Destruct
    \/ Unwind
    \/ Catch
    \/ OvrShutdown

SpecExit == Init /\ [][NextExit]_vars /\ WF_vars(NextExit)

----------------------------------------------------------------------------
\* Exact arithmetic for the off-axis projection.  A number is <<n, d>> with
\* d > 0 in lowest terms; a division by zero gives NonFinite (an infinity or a
\* NaN of the float arithmetic), which every later operation passes on.

RECURSIVE GCD(_, _)
GCD(a, b) == IF b = 0 THEN a ELSE GCD(b, a % b)
Abs(x) == IF x < 0 THEN -x ELSE x
NonFinite == <<1, 0>>
IsFinite(q) == q[2] # 0
Rat(n, d) ==
    IF d = 0 THEN NonFinite
    ELSE LET g == GCD(Abs(n), Abs(d))
         IN  <<(IF d < 0 THEN -n ELSE n) \div g, Abs(d) \div g>>
Whole(n) == <<n, 1>>
RNeg(a) == IF IsFinite(a) THEN <<-a[1], a[2]>> ELSE NonFinite
RAdd(a, b) ==
    IF IsFinite(a) /\ IsFinite(b)
    THEN LET m == (a[2] \div GCD(a[2], b[2])) * b[2]
         IN  Rat(a[1] * (m \div a[2]) + b[1] * (m \div b[2]), m)
    ELSE NonFinite
RSub(a, b) == RAdd(a, RNeg(b))
RMul(a, b) ==
    IF IsFinite(a) /\ IsFinite(b)
    THEN LET g1 == GCD(Abs(a[1]), b[2])
             g2 == GCD(Abs(b[1]), a[2])
         IN  Rat((a[1] \div g1) * (b[1] \div g2), (a[2] \div g2) * (b[2] \div g1))
    ELSE NonFinite
RDiv(a, b) ==
    IF IsFinite(a) /\ IsFinite(b) /\ b[1] # 0
    THEN RMul(a, Rat(b[2], b[1]))
    ELSE NonFinite
SqrtNat(n) == CHOOSE k \in 0 .. n : k * k = n
RSqrt(a) == <<SqrtNat(a[1]), SqrtNat(a[2])>>

\* glm::vec3 and glm::mat4 (a matrix is given by its rows)
Vec(x, y, z) == <<Whole(x), Whole(y), Whole(z)>>
VSub(a, b) == <<RSub(a[1], b[1]), RSub(a[2], b[2]), RSub(a[3], b[3])>>
dot(a, b) == RAdd(RAdd(RMul(a[1], b[1]), RMul(a[2], b[2])), RMul(a[3], b[3]))
cross(a, b) ==
    <<RSub(RMul(a[2], b[3]), RMul(a[3], b[2])),
      RSub(RMul(a[3], b[1]), RMul(a[1], b[3])),
      RSub(RMul(a[1], b[2]), RMul(a[2], b[1]))>>
normalize(v) ==
    LET len == RSqrt(dot(v, v))
    IN  <<RDiv(v[1], len), RDiv(v[2], len), RDiv(v[3], len)>>
MatMul(A, B) ==
    [i \in 1 .. 4 |-> [j \in 1 .. 4 |->
        RAdd(RAdd(RMul(A[i][1], B[1][j]), RMul(A[i][2], B[2][j])),
             RAdd(RMul(A[i][3], B[3][j]), RMul(A[i][4], B[4][j])))]]
MatVec(A, v) ==
    [i \in 1 .. 4 |->
        RAdd(RAdd(RMul(A[i][1], v[1]), RMul(A[i][2], v[2])),
             RAdd(RMul(A[i][3], v[3]), RMul(A[i][4], v[4])))]

----------------------------------------------------------------------------
\* ColorCubeScene::render, "LEFT WALL MATH" (the right wall and the floor repeat
\* it with their own corners), taken on its own for a surface and an eye position

\* glm::frustum(l, r, b, t, 0.001f, 1000.f)
zNear == Rat(1, 1000)
zFar == Whole(1000)

\* a frustum that takes the window to be centred on the view axis
frustumCentred(l, r, b, t, n, f) ==
    LET z == Whole(0)
        two == Whole(2)
    IN  <<<<RDiv(RMul(two, n), RSub(r, l)), z, z, z>>,
          <<z, RDiv(RMul(two, n), RSub(t, b)), z, z>>,
          <<z, z, RNeg(RDiv(RAdd(f, n), RSub(f, n))),
                  RNeg(RDiv(RMul(two, RMul(f, n)), RSub(f, n)))>>,
          <<z, z, Whole(-1), z>>>>

\* glm::frustum
frustum(l, r, b, t, n, f) ==
    LET z == Whole(0)
        two == Whole(2)
    IN  <<<<RDiv(RMul(two, n), RSub(r, l)), z, RDiv(RAdd(r, l), RSub(r, l)), z>>,
          <<z, RDiv(RMul(two, n), RSub(t, b)), RDiv(RAdd(t, b), RSub(t, b)), z>>,
          <<z, z, RNeg(RDiv(RAdd(f, n), RSub(f, n))),
                  RNeg(RDiv(RMul(two, RMul(f, n)), RSub(f, n)))>>,
          <<z, z, Whole(-1), z>>>>

\* an offset taken without its sign
ClipOffsetUnsigned(axis, v, dist) ==
    LET q == RDiv(RMul(dot(axis, v), zNear), dist)
    IN  IF IsFinite(q) THEN <<Abs(q[1]), q[2]>> ELSE q

\* glm::dot(axis, v) * 0.001f / dist
ClipOffset(axis, v, dist) == RDiv(RMul(dot(axis, v), zNear), dist)

\* M[0] = vec4(vr, 0), M[1] = vec4(vu, 0), M[2] = vec4(vn, 0), M = transpose(M)
BasisMatrix(vr, vu, vn) ==
    LET z == Whole(0)
    IN  <<<<vr[1], vr[2], vr[3], z>>,
          <<vu[1], vu[2], vu[3], z>>,
          <<vn[1], vn[2], vn[3], z>>,
          <<z, z, z, Whole(1)>>>>

\* T[3] = vec4(-eyePos.x, -eyePos.y, -eyePos.z, 1)
EyeTranslation(e) ==
    LET z == Whole(0)
        one == Whole(1)
    IN  <<<<one, z, z, RNeg(e[1])>>,
          <<z, one, z, RNeg(e[2])>>,
          <<z, z, one, RNeg(e[3])>>,
          <<z, z, z, one>>>>

\* the values the lines compute for the corners Verts[0..3] and the eye position:
\* dist is used as the divisor as it is, and the matrix is produced for every dist
OffAxisMath(Verts, eyePosition) ==
    LET va == VSub(Verts[0], eyePosition)
        vb == VSub(Verts[1], eyePosition)
        vc == VSub(Verts[3], eyePosition)
        vr == normalize(VSub(Verts[1], Verts[0]))
        vu == normalize(VSub(Verts[3], Verts[0]))
        vn == normalize(cross(vr, vu))
        dist == RNeg(dot(vn, va))
        l == ClipOffset(vr, va, dist)
        r == ClipOffset(vr, vb, dist)
        b == ClipOffset(vu, va, dist)
        t == ClipOffset(vu, vc, dist)
        M == BasisMatrix(vr, vu, vn)
        T == EyeTranslation(eyePosition)
    IN  [dist |-> dist, divisor |-> dist, l |-> l, r |-> r, b |-> b, t |-> t,
         projection |-> MatMul(MatMul(frustum(l, r, b, t, zNear, zFar), M), T)]

\* eye positions tried: x and y within EyeRange of the origin, z from one unit
\* behind the origin to EyeDepth in front of it
EyeRange == 2
EyeDepth == 5
EyePositions ==
    {Vec(x, y, z) : x \in -EyeRange .. EyeRange, y \in -EyeRange .. EyeRange,
                    z \in -1 .. EyeDepth}

\* a unit quad centred at the origin and facing +z
UnitQuad ==
    [k \in 0 .. 3 |->
        <<Rat(IF k \in {1, 2} THEN 1 ELSE -1, 2), Rat(IF k \in {2, 3} THEN 1 ELSE -1, 2),
          Whole(0)>>]

\* rectangles tried as surfaces: the unit quad, a wall turned about the y axis
\* (3 by 2, along (3, 0, -4) / 5) and a floor facing +y
SurfaceSamples ==
    {UnitQuad,
     [k \in 0 .. 3 |-> CASE k = 0 -> Vec(-1, -1, 0)
                         [] k = 1 -> <<Rat(4, 5), Whole(-1), Rat(-12, 5)>>
                         [] k = 2 -> <<Rat(4, 5), Whole(1), Rat(-12, 5)>>
                         [] OTHER -> Vec(-1, 1, 0)],
     [k \in 0 .. 3 |-> CASE k = 0 -> Vec(-1, -1, 1)
                         [] k = 1 -> Vec(1, -1, 1)
                         [] k = 2 -> Vec(1, -1, -1)
                         [] OTHER -> Vec(-1, -1, -1)]}

InitOffAxis ==
    /\ pc = "offAxis"
    /\ frame = 0
    /\ shouldClose = FALSE
    /\ eye = 0
    /\ eyePoses = None
    /\ texMissing = {}
    /\ session = "live"
    /\ result = -1
    /\ fbStatus = <<"GL_FRAMEBUFFER_COMPLETE">>
    /\ glHandles = SceneHandles
    /\ geometry = SceneGeometry
    /\ thrown = None
    /\ mainEvents = <<>>
    /\ offAxisIn \in {<<[Verts |-> c, eyePos |-> e]>> : c \in SurfaceSamples, e \in EyePositions}
    /\ offAxisOut = None
    /\ InitScene

WallMath ==
    /\ pc = "offAxis"
    /\ offAxisOut = None
    /\ offAxisOut' = <<OffAxisMath(offAxisIn[1].Verts, offAxisIn[1].eyePos)>>
    /\ UNCHANGED <<appVars, mainVars, offAxisIn, sceneVars>>

SpecOffAxis == InitOffAxis /\ [][WallMath]_vars

----------------------------------------------------------------------------
\* Properties

\* the poll of this step succeeded and reports b pressed, and the successful
\* poll before it (if any) reported b released
Rising(b) == lastIn'.ok /\ b \in lastIn'.buttons /\ b \notin lastOkButtons

\* C1: each of debug (A), track (B) and broken (X) toggles in a step exactly
\* when that step is a poll reporting the button pressed after a poll that
\* reported it released (or after none): a run of N consecutive pressed polls
\* toggles once, at its first poll, and not again before a release is polled.
C1_EdgeTrigger ==
    [][ /\ (debug' # debug) <=> Rising("A")
        /\ (track' # track) <=> Rising("B")
        /\ (broken' # broken) <=> Rising("X") ]_vars

\* all three buttons are held in the latest poll and each flag has toggled once
C1_Witness ==
    /\ lastIn.ok /\ {"A", "B", "X"} \subseteq lastIn.buttons
    /\ A_down /\ B_down /\ X_down
    /\ debug /\ ~track /\ broken

\* C2: after any sequence of checkInput calls from the initial scale 0.2,
\* 0.01 <= boxScale < 1.0.
C2_ScaleBounds == MinScale <= boxScale /\ boxScale < MaxScale

\* the scale axis was pushed down in the latest poll and the scale sits one
\* step above the lower bound, where the next step down is refused
C2_Witness ==
    /\ lastIn.ok /\ lastIn.lx < 0
    /\ boxScale + (lastIn.lx \div StickDivisor) = MinScale

\* C3: in every run-loop iteration the frame is submitted exactly once, and only
\* after the left and then the right eye have been rendered in that iteration.
C3_SubmitOnceAfterBothEyes ==
    LET whole == <<"renderLeft", "renderRight", "submit">>
    IN  /\ Len(frameEvents) <= Len(whole)
        /\ frameEvents = SubSeq(whole, 1, Len(frameEvents))
        /\ pc = "submit" => frameEvents = <<"renderLeft", "renderRight">>
        /\ pc \in {"finishFrame", "shutdownGl"} \/ (pc = "loop" /\ frame > 0)
              => frameEvents = whole

\* the second iteration has submitted its frame
C3_Witness == pc = "finishFrame" /\ frame = MaxFrames /\ Len(frameEvents) = 3

\* the surface draws of eye e in the current frame, once render(e) has run
Drawn(e) == Len(eyeBuffer[e]) = SurfaceCount
Draw(e, s) == eyeBuffer[e][s + 1]
RenderTargets == 0 .. (ovrEye_Count * SurfaceCount - 1)

\* C4: the compositor pass of eye e textures surface s with target 3*e + s,
\* which is within 0..5 and holds what the off-axis pass for (s, e) wrote in
\* the same render call; the six (surface, eye) pairs use six distinct targets
\* and no target written for one eye is sampled for the other.
C4_SampledTargets ==
    /\ \A e \in Eyes, s \in Surfaces :
          Drawn(e) =>
             /\ Draw(e, s).tex = 3 * e + s
             /\ Draw(e, s).tex \in RenderTargets
             /\ Len(Draw(e, s).content) = 1
             /\ Draw(e, s).content[1].surface = s
             /\ Draw(e, s).content[1].eye = e
             /\ Draw(e, s).content[1].frame = Draw(e, s).frame
             /\ renderedTextures[Draw(e, s).tex] = Draw(e, s).content
    /\ \A e1, e2 \in Eyes, s1, s2 \in Surfaces :
          (Drawn(e1) /\ Drawn(e2) /\ Draw(e1, s1).tex = Draw(e2, s2).tex)
             => (e1 = e2 /\ s1 = s2)

\* both eyes of the second frame are composited; the right floor samples target 5
C4_Witness ==
    /\ frame = MaxFrames /\ Drawn(LEFT) /\ Drawn(RIGHT)
    /\ Draw(RIGHT, 2).tex = 5 /\ Draw(LEFT, 0).tex = 0

\* C5: each iteration of the run loop performs exactly one input-driven update
\* (one checkInput call) of the interaction state.
C5_OneUpdatePerFrame == pc = "finishFrame" => polls = 1

\* C6: every compositor draw of a surface uses the physical projection of its
\* eye, the physical head-pose view passed to render and the surface's fixed
\* transform, whatever track, viewFromController, debug, broken and the
\* off-axis eye position are.
C6_PhysicalView ==
    \A e \in Eyes, s \in Surfaces :
       Drawn(e) =>
          /\ Draw(e, s).projection = EyeProjection(e)
          /\ Draw(e, s).modelview = ViewOf(eyePoses[e + 1])
          /\ Draw(e, s).transform = SurfaceTransform(s)

\* the right eye is composited with tracking off, the view taken from the
\* controller, the overlay and the fault flag on, and a rotated head
C6_Witness ==
    /\ Drawn(RIGHT) /\ ~track /\ viewFromController /\ debug /\ broken
    /\ eyePoses[RIGHT + 1].rot = 1
    /\ eyePos[RIGHT] # eyePoses[RIGHT + 1].pos

\* the state just after the render call of eye e, before the next frame's poses
JustRendered(e) == lastEye = <<e>> /\ eye = e + 1

\* C7: while track is false, after any render call for eye e, eyePos[e] and the
\* translation of posOnly equal their values at the end of the last render call
\* for eye e made with tracking enabled.
C7_FrozenAtLastTracked ==
    \A e \in Eyes :
       (lastEye = <<e>> /\ ~track /\ Len(tracked[e]) = 1) =>
          /\ eyePos[e] = tracked[e][1].eyePos
          /\ posOnly = tracked[e][1].posOnly

\* C8: with tracking enabled, after the render call for eye e, eyePos[e] is the
\* right hand position shifted in x by -0.0325 (left eye) or +0.0325 (right eye)
\* if the trigger of the last successful query is > 0.5, and the HMD render-pose
\* position of eye e otherwise (a trigger of exactly 0.5 included).
C8_EyePositionSource ==
    \A e \in Eyes :
       (JustRendered(e) /\ track) =>
          IF Len(lastTrigger) = 1 /\ lastTrigger[1] > TriggerThreshold
          THEN eyePos[e] = <<handPose.pos[1] + (IF e = LEFT THEN -HalfIOD ELSE HalfIOD),
                             handPose.pos[2], handPose.pos[3]>>
          ELSE eyePos[e] = eyePoses[e + 1].pos

\* the right eye was rendered with tracking on and the trigger pulled
C8_Witness ==
    /\ JustRendered(RIGHT) /\ track
    /\ Len(lastTrigger) = 1 /\ lastTrigger[1] > TriggerThreshold
    /\ eyePos[RIGHT] = <<handPose.pos[1] + HalfIOD, handPose.pos[2], handPose.pos[3]>>
    /\ eyePos[RIGHT] # eyePoses[RIGHT + 1].pos

\* the poll of this step reported X and nothing else
XOnlyPoll == lastIn' = [NoButtons EXCEPT !.buttons = {"X"}]

\* C9: the fault flag is display-only.  The broken mode of a draw is non-zero
\* only for the floor of the right eye while broken is set (it is 2 there), so
\* both walls and every left-eye draw use mode 0; the target a surface samples
\* and the off-axis matrices do not depend on broken; and a poll that toggles
\* broken by X alone leaves boxScale, boxtransform, track and debug as they
\* were and changes no eye position but that of the eye being rendered.
C9_BrokenDisplayOnly ==
    /\ [](\A e \in Eyes, s \in Surfaces :
            Drawn(e) =>
               /\ Draw(e, s).mode = (IF s = 2 /\ e = RIGHT /\ broken THEN 2 ELSE 0)
               /\ Draw(e, s).tex = 3 * e + s)
    /\ [](\A e \in Eyes : JustRendered(e) =>
            quadProjections = [i \in Surfaces |-> OffAxis(i, eyePos[e])])
    /\ [][ (broken' # broken /\ XOnlyPoll) =>
             /\ UNCHANGED <<boxScale, boxtransform, track, debug>>
             /\ \A e \in Eyes : lastEye' # <<e>> => eyePos'[e] = eyePos[e] ]_vars

\* broken is set, the right floor was drawn in mode 2 and the left floor in mode 0
C9_Witness ==
    /\ broken /\ Drawn(LEFT) /\ Drawn(RIGHT) /\ frame = MaxFrames
    /\ Draw(RIGHT, 2).mode = 2 /\ Draw(LEFT, 2).mode = 0
    /\ uScreen.broken = 2

\* C10: the render loop is never entered with a texture whose image failed to load.
C10_NoMissingTextureInLoop ==
    pc \in {"loop", "pollEvents", "update", "draw", "renderScene", "submit", "finishFrame"}
       => texMissing = {}

\* the program is inside the run loop
InLoop ==
    pc \in {"loop", "pollEvents", "update", "draw", "renderScene", "submit", "finishFrame"}

\* C11: an incomplete render-target framebuffer is detected when it is created
\* and is fatal: the run loop is never entered with a framebuffer whose status
\* is not GL_FRAMEBUFFER_COMPLETE.
C11_IncompleteFramebufferFatal ==
    (Len(fbStatus) = 1 /\ ~checkFramebufferStatus(fbStatus[1])) => ~InLoop

\* positions of event ev in the teardown history
Calls(ev) == {i \in 1 .. Len(mainEvents) : mainEvents[i] = ev}

\* C12: every thrown error reaches the handler of main and is logged there, and
\* only thrown errors are; when main returns, a session that was created has
\* been destroyed, ovr_Shutdown has been called exactly once, as the last call
\* and after ovr_Destroy; main returns 0 only after the loop ended by an exit
\* request without an error, and -1 after any error.
C12_SingleFailurePath ==
    /\ Len(thrown) = 1 => pc \in {"unwind", "catch", "ovrShutdown", "exit"}
    /\ pc = "catch" => Len(thrown) = 1
    /\ pc = "exit" =>
          /\ Cardinality(Calls("log")) = (IF Len(thrown) = 1 THEN 1 ELSE 0)
          /\ session \in {"none", "destroyed"}
          /\ Cardinality(Calls("ovr_Destroy")) = (IF session = "destroyed" THEN 1 ELSE 0)
          /\ Calls("ovr_Shutdown") = {Len(mainEvents)}
          /\ \A i \in Calls("ovr_Destroy"), j \in Calls("ovr_Shutdown") : i < j
          /\ result \in {0, -1}
          /\ result = 0 <=> Len(thrown) = 0
          /\ result = 0 => shouldClose /\ frame > 0

\* main has returned -1 after a GLFW error in the second iteration of the loop:
\* the session was destroyed, the error logged, the SDK shut down
C12_Witness ==
    /\ pc = "exit" /\ thrown = <<"GLFW error">> /\ frame = MaxFrames
    /\ mainEvents = <<"ovr_Destroy", "log", "ovr_Shutdown">>
    /\ session = "destroyed" /\ result = -1

\* the step is a render call
RenderStep == polls' = polls + 1

\* C13: a render call whose checkInput query fails leaves boxScale, boxtransform,
\* track, debug, broken and the three latches as they were; one whose trigger
\* query fails leaves triggerPressed and viewFromController as they were; and
\* such a call throws nothing and goes on to the next eye or to the submit, so
\* every iteration that reaches its end has rendered both eyes and submitted.
C13_FailedQueryTolerated ==
    /\ [][ RenderStep =>
             /\ ~lastIn'.ok =>
                   UNCHANGED <<boxScale, boxtransform, track, debug, broken,
                               A_down, B_down, X_down>>
             /\ ~lastQuery'.ok => UNCHANGED <<triggerPressed, viewFromController>>
             /\ (~lastIn'.ok \/ ~lastQuery'.ok) =>
                   /\ UNCHANGED thrown
                   /\ pc' \in {"renderScene", "submit"}
                   /\ frameEvents' = Append(frameEvents, RenderEvent(eye)) ]_vars
    /\ [](pc = "finishFrame" => frameEvents = <<"renderLeft", "renderRight", "submit">>)

\* both queries of the right-eye render failed in a frame that was submitted,
\* with tracking off and the view taken from the controller since earlier polls
C13_Witness ==
    /\ pc = "finishFrame" /\ ~lastIn.ok /\ ~lastQuery.ok /\ lastEye = <<RIGHT>>
    /\ ~track /\ viewFromController /\ triggerPressed

\* C14: when main has returned, every GL object the scene constructor generated
\* (framebuffer, render-target textures, depth renderbuffer) has been deleted:
\* as many GL objects of the scene are live as before initialisation, none.
C14_NoLeakedHandles == pc = "exit" => glHandles = {}

\* the off-axis lines have run on a surface with the eye strictly in front of it
Solved == Len(offAxisOut) = 1
InFront == Solved /\ IsFinite(offAxisOut[1].dist) /\ offAxisOut[1].dist[1] > 0

\* x and y of corner k after the projection and the perspective divide
Ndc(k) ==
    LET p == offAxisIn[1].Verts[k]
        c == MatVec(offAxisOut[1].projection, <<p[1], p[2], p[3], Whole(1)>>)
    IN  <<RDiv(c[1], c[4]), RDiv(c[2], c[4])>>

\* C15: for a rectangle and an eye strictly in front of its plane (dist > 0),
\* frustum(l, r, b, t, near, far) * M * T maps corners[0] to (-1, -1),
\* corners[1] to (+1, -1), corners[3] to (-1, +1) and the fourth corner to
\* (+1, +1) after the perspective divide.
C15_OffAxisExact ==
    InFront =>
       /\ Ndc(0) = <<Whole(-1), Whole(-1)>>
       /\ Ndc(1) = <<Whole(1), Whole(-1)>>
       /\ Ndc(3) = <<Whole(-1), Whole(1)>>
       /\ Ndc(2) = <<Whole(1), Whole(1)>>

\* the turned wall seen from an eye off its centre line: the frustum is not
\* symmetric and the corners still land on the clip quad
C15_Witness ==
    /\ InFront
    /\ offAxisIn[1].Verts[1] = <<Rat(4, 5), Whole(-1), Rat(-12, 5)>>
    /\ offAxisIn[1].eyePos = Vec(2, 1, 3)
    /\ offAxisOut[1].l # RNeg(offAxisOut[1].r)
    /\ Ndc(1) = <<Whole(1), Whole(-1)>>

\* the off-axis lines have run on the unit quad with the eye at e
UnitQuadFrom(e) == Solved /\ offAxisIn[1] = [Verts |-> UnitQuad, eyePos |-> e]

\* C16: for the unit quad centred at the origin and facing +z, the eye at
\* (0, 0, 5) gives l = -r and b = -t; the eye at (2, 0, 5) gives |l| # |r| and
\* still b = -t.  For every eye in front of the quad, l = -r exactly when the
\* eye has x = 0 and b = -t exactly when it has y = 0.
C16_Symmetry ==
    /\ UnitQuadFrom(Vec(0, 0, 5)) =>
          /\ offAxisOut[1].l = RNeg(offAxisOut[1].r)
          /\ offAxisOut[1].b = RNeg(offAxisOut[1].t)
    /\ UnitQuadFrom(Vec(2, 0, 5)) =>
          /\ Abs(offAxisOut[1].l[1]) * offAxisOut[1].r[2]
                # Abs(offAxisOut[1].r[1]) * offAxisOut[1].l[2]
          /\ offAxisOut[1].b = RNeg(offAxisOut[1].t)
    /\ (InFront /\ offAxisIn[1].Verts = UnitQuad) =>
          /\ offAxisOut[1].l = RNeg(offAxisOut[1].r) <=> offAxisIn[1].eyePos[1] = Whole(0)
          /\ offAxisOut[1].b = RNeg(offAxisOut[1].t) <=> offAxisIn[1].eyePos[2] = Whole(0)

\* the eye at (2, 0, 5): l = -0.0005, r = -0.0003, b = -0.0001, t = 0.0001
C16_Witness ==
    /\ UnitQuadFrom(Vec(2, 0, 5))
    /\ offAxisOut[1].l = Rat(-1, 2000) /\ offAxisOut[1].r = Rat(-3, 10000)
    /\ offAxisOut[1].b = Rat(-1, 10000) /\ offAxisOut[1].t = Rat(1, 10000)

\* C17: when the eye is on or behind the plane of the surface (dist <= 0), the
\* offsets are not divided by dist as it is: the divisor is a positive clamped
\* distance, or no finite frustum is produced for a pass to be rendered with.
C17_DistGuarded ==
    (Solved /\ offAxisOut[1].dist[1] <= 0) =>
       \/ (IsFinite(offAxisOut[1].divisor) /\ offAxisOut[1].divisor[1] > 0)
       \/ offAxisOut[1].projection = None

\* C18: the render call of the right eye leaves boxScale, boxtransform, track,
\* debug and broken as the left-eye render of the same iteration left them, so
\* the off-axis passes of the two eyes of a frame draw the box with the same
\* scale and transform.
C18_EyesShareState ==
    /\ [][ (RenderStep /\ eye = RIGHT) =>
              UNCHANGED <<boxScale, boxtransform, track, debug, broken>> ]_vars
    /\ [](\A s \in Surfaces :
            (Drawn(LEFT) /\ Drawn(RIGHT)) =>
               /\ Draw(LEFT, s).content[1].boxScale = Draw(RIGHT, s).content[1].boxScale
               /\ Draw(LEFT, s).content[1].boxtransform
                     = Draw(RIGHT, s).content[1].boxtransform)

\* C19: the view bound for the scene geometry of every off-axis pass has no
\* rotation, whatever viewFromController and track are.
C19_PassViewUnrotated ==
    \A k \in RenderTargets :
       Len(renderedTextures[k]) = 1 => renderedTextures[k][1].view.rot = 0

\* C20: after any sequence of polls the translation of boxtransform is
\* (0, 0, -1) plus 0.01 times the sum of (right x, right y, -left y) over the
\* successful polls; a successful poll with these three axes at 0 leaves
\* boxtransform as it was; and a poll with the scale axis at 0 and no reset
\* leaves boxScale as it was, whatever the translation axes are.
C20_TranslationAccumulates ==
    /\ [](\A k \in 1 .. 3 :
            (boxtransform[k] - <<0, 0, -10000>>[k]) * StickDivisor = stickSum[k])
    /\ [][ (lastIn'.ok /\ lastIn'.rx = 0 /\ lastIn'.ry = 0 /\ lastIn'.ly = 0)
              => boxtransform' = boxtransform ]_vars
    /\ [][ (lastIn'.ok /\ lastIn'.lx = 0 /\ "LThumb" \notin lastIn'.buttons)
              => boxScale' = boxScale ]_vars

\* three polls have moved the box along all three axes, back and forth in x,
\* and the scale is still the initial one
C20_Witness ==
    /\ polls = MaxPolls /\ lastIn.ok /\ lastIn.rx = -10000
    /\ stickSum = <<-5000, 10000, -20000>>
    /\ boxtransform = <<-50, 100, -10200>>
    /\ boxScale = DefaultScale

\* C21: every successful poll that reports LThumb pressed leaves boxScale at the
\* default 0.2, whatever boxScale was, whatever the scale axis of the same
\* sample is, and whether or not the previous poll reported LThumb too.
C21_ResetWhileHeld ==
    [][ (lastIn'.ok /\ "LThumb" \in lastIn'.buttons) => boxScale' = DefaultScale ]_vars

\* LThumb is reported with the scale axis pushed right, and the scale is the default
C21_Witness ==
    /\ lastIn.ok /\ "LThumb" \in lastIn.buttons /\ lastIn.lx = 10000
    /\ boxScale = DefaultScale

\* C22 as stated: once should-close is set, main ends with shutdownGl called
\* exactly once and with run() having returned 0.
C22_ExitReturnsZero ==
    (shouldClose /\ pc = "exit") =>
       (result = 0 /\ Cardinality(Calls("shutdownGl")) = 1)

\* C22, amended: the loop never clears should-close; once it is set no further
\* frame is started and the next loop test leaves the loop; main then ends;
\* shutdownGl is never called twice; and if no error is thrown in the rest of
\* the iteration in progress, shutdownGl has been called exactly once and run()
\* has returned 0, while after such an error shutdownGl is not called and the
\* result is -1.
C22_ExitRequest ==
    /\ [][ shouldClose => shouldClose' ]_vars
    /\ [][ shouldClose => frame' = frame ]_vars
    /\ [][ (shouldClose /\ pc = "loop") => pc' = "shutdownGl" ]_vars
    /\ [](Cardinality(Calls("shutdownGl")) <= 1)
    /\ []((shouldClose /\ pc = "exit" /\ Len(thrown) = 0) =>
             (result = 0 /\ Cardinality(Calls("shutdownGl")) = 1))
    /\ []((shouldClose /\ pc = "exit" /\ Len(thrown) = 1) =>
             (result = -1 /\ Calls("shutdownGl") = {}))
    /\ shouldClose ~> (pc = "exit")

\* ESC was pressed in the last iteration, the iteration was finished, shutdownGl
\* was called once and main has returned 0
C22_Witness ==
    /\ pc = "exit" /\ shouldClose /\ frame = ExitFrames /\ result = 0
    /\ frameEvents = <<"renderLeft", "renderRight", "submit">>
    /\ mainEvents = <<"shutdownGl", "ovr_Destroy", "ovr_Shutdown">>

\* C23: while the program is in the run loop, the scene owns what its
\* constructor created and nothing more: the GL objects of SceneHandles and
\* the nine boxes and quads, whether or not the debug overlay is drawn.
C23_NoAllocationPerFrame ==
    InLoop => (glHandles = SceneHandles /\ geometry = SceneGeometry)

====
